---- MODULE Spec2Model ----
(***************************************************************************)
(* The tool-calling loop of cfo-copilot: MainAgent.process_query           *)
(* (agent/main_agent.py) together with ToolRegistry.execute_tool           *)
(* (agent/tools.py).  The language model and the bodies of the tool        *)
(* handlers are the environment: each model call is a nondeterministic    *)
(* choice over what it can return or raise; a handler raises or returns    *)
(* as its arguments decide, and the data it returns is a nondeterministic  *)
(* choice.                                                                 *)
(***************************************************************************)
EXTENDS Integers, Sequences, FiniteSets, TLC

(***************************************************************************)
(* Python values.  Every value is a record [kind, v, items]: v holds the   *)
(* text fragments of a scalar, items the members of a list or dict in      *)
(* insertion order ([k, val]; k is <<>> for list members).  Kind "object"  *)
(* is a value the json module cannot encode (numpy scalar, Timestamp, ...).*)
(***************************************************************************)
VNone == [kind |-> "None", v |-> <<>>, items |-> <<>>]

VBool(b) == [kind |-> "bool", v |-> <<IF b THEN "true" ELSE "false">>, items |-> <<>>]

VStr(frags) == [kind |-> "str", v |-> frags, items |-> <<>>]

VNum(frags) == [kind |-> "num", v |-> frags, items |-> <<>>]

VObj(name) == [kind |-> "object", v |-> <<name>>, items |-> <<>>]

VList(members) == [kind |-> "list", v |-> <<>>, items |-> members]

VDict(members) == [kind |-> "dict", v |-> <<>>, items |-> members]

Item(key, val) == [k |-> key, val |-> val]

Elem(val) == [k |-> <<>>, val |-> val]

\* dict.keys(): the keys in insertion order.
Keys(d) == [i \in 1..Len(d.items) |-> d.items[i].k]

KeySet(d) == {d.items[i].k : i \in 1..Len(d.items)}

\* key in dict
HasKey(d, key) == key \in KeySet(d)

\* dict.get(key, default)
Get(d, key, default) ==
    IF HasKey(d, key)
    THEN LET i == CHOOSE j \in 1..Len(d.items) : d.items[j].k = key
         IN d.items[i].val
    ELSE default

\* Python truthiness of a value (`if x:`).
Truthy(x) ==
    CASE x.kind = "None" -> FALSE
      [] x.kind = "bool" -> x.v = <<"true">>
      [] x.kind = "str" -> x.v # <<>>
      [] x.kind \in {"list", "dict"} -> x.items # <<>>
      [] OTHER -> TRUE

(***************************************************************************)
(* JSON text is a sequence of tokens [t, s]: punctuation, string literals, *)
(* numbers and the literals true / false / null.                           *)
(***************************************************************************)
Punct(c) == [t |-> "punct", s |-> <<c>>]

StrTok(frags) == [t |-> "str", s |-> frags]

NumTok(frags) == [t |-> "num", s |-> frags]

LitTok(w) == [t |-> "lit", s |-> <<w>>]

ParseFail == [ok |-> FALSE, val |-> VNone, rest |-> <<>>]

ParseOk(val, rest) == [ok |-> TRUE, val |-> val, rest |-> rest]

RECURSIVE ParseValue(_), ParseElems(_, _), ParseMembers(_, _)

\* One JSON value at the head of ts.
ParseValue(ts) ==
    IF ts = <<>> THEN ParseFail
    ELSE LET h == Head(ts) IN
         CASE h.t = "str" -> ParseOk(VStr(h.s), Tail(ts))
           [] h.t = "num" -> ParseOk(VNum(h.s), Tail(ts))
           [] h = LitTok("null") -> ParseOk(VNone, Tail(ts))
           [] h = LitTok("true") -> ParseOk(VBool(TRUE), Tail(ts))
           [] h = LitTok("false") -> ParseOk(VBool(FALSE), Tail(ts))
           [] h = Punct("[") ->
                IF Len(ts) >= 2 /\ ts[2] = Punct("]")
                THEN ParseOk(VList(<<>>), Tail(Tail(ts)))
                ELSE ParseElems(Tail(ts), <<>>)
           [] h = Punct("{") ->
                IF Len(ts) >= 2 /\ ts[2] = Punct("}")
                THEN ParseOk(VDict(<<>>), Tail(Tail(ts)))
                ELSE ParseMembers(Tail(ts), <<>>)
           [] OTHER -> ParseFail

\* The members of an array, after "[" and the members in acc.
ParseElems(ts, acc) ==
    LET r == ParseValue(ts) IN
    IF ~r.ok \/ r.rest = <<>> THEN ParseFail
    ELSE LET more == Append(acc, Elem(r.val)) IN
         CASE Head(r.rest) = Punct(",") -> ParseElems(Tail(r.rest), more)
           [] Head(r.rest) = Punct("]") -> ParseOk(VList(more), Tail(r.rest))
           [] OTHER -> ParseFail

\* The members of an object, after "{" and the members in acc.
ParseMembers(ts, acc) ==
    IF Len(ts) < 2 \/ ts[1].t # "str" \/ ts[2] # Punct(":") THEN ParseFail
    ELSE LET r == ParseValue(SubSeq(ts, 3, Len(ts))) IN
         IF ~r.ok \/ r.rest = <<>> THEN ParseFail
         ELSE LET more == Append(acc, Item(ts[1].s, r.val)) IN
              CASE Head(r.rest) = Punct(",") -> ParseMembers(Tail(r.rest), more)
                [] Head(r.rest) = Punct("}") -> ParseOk(VDict(more), Tail(r.rest))
                [] OTHER -> ParseFail

\* json.loads: [ok, val]; ok = FALSE is json.JSONDecodeError (also for
\* text left over after the value).
json_loads(ts) ==
    LET r == ParseValue(ts) IN
    IF r.ok /\ r.rest = <<>> THEN [ok |-> TRUE, val |-> r.val]
    ELSE [ok |-> FALSE, val |-> VNone]

RECURSIVE Encodable(_), Encode(_), EncodeItems(_, _, _)

\* Whether json.dumps accepts the value: no member at any depth is an
\* object the encoder does not know.
Encodable(x) ==
    /\ x.kind # "object"
    /\ \A i \in 1..Len(x.items) : Encodable(x.items[i].val)

\* The members from index i on, comma-separated.
EncodeItems(x, i, isDict) ==
    IF i > Len(x.items) THEN <<>>
    ELSE (IF i > 1 THEN <<Punct(",")>> ELSE <<>>)
         \o (IF isDict THEN <<StrTok(x.items[i].k), Punct(":")>> ELSE <<>>)
         \o Encode(x.items[i].val)
         \o EncodeItems(x, i + 1, isDict)

Encode(x) ==
    CASE x.kind = "None" -> <<LitTok("null")>>
      [] x.kind = "bool" -> <<LitTok(x.v[1])>>
      [] x.kind = "str" -> <<StrTok(x.v)>>
      [] x.kind = "num" -> <<NumTok(x.v)>>
      [] x.kind = "list" -> <<Punct("[")>> \o EncodeItems(x, 1, FALSE) \o <<Punct("]")>>
      [] x.kind = "dict" -> <<Punct("{")>> \o EncodeItems(x, 1, TRUE) \o <<Punct("}")>>
      [] OTHER -> <<>>

\* json.dumps: [ok, text, error]; ok = FALSE is the TypeError the encoder
\* raises for an object it cannot serialize.
json_dumps(x) ==
    IF Encodable(x)
    THEN [ok |-> TRUE, text |-> Encode(x), error |-> <<>>]
    ELSE [ok |-> FALSE, text |-> <<>>,
          error |-> <<"Object of type ", "int64", " is not JSON serializable">>]

(***************************************************************************)
(* The tool registry.  A registry is [present, tools]: present = FALSE is  *)
(* tool_registry = None (the constructor's default); tools lists the       *)
(* entries of self.tools in insertion order.  An entry holds the declared  *)
(* 'parameters' names (wellFormed = FALSE: the entry lacks 'parameters'),  *)
(* and the keyword arguments the handler's signature requires and accepts. *)
(***************************************************************************)
ToolInfo(name, params, req, acc) ==
    [name |-> name, parameters |-> params, wellFormed |-> TRUE,
     required |-> req, accepted |-> acc]

\* ToolRegistry.__init__: the three tools and their handlers' signatures.
RealRegistry ==
    [present |-> TRUE,
     tools |-> <<
        ToolInfo("explore_csv", <<"csv_name">>,
                 {<<"csv_name">>}, {<<"csv_name">>, <<"max_unique">>}),
        ToolInfo("extract_csv_data", <<"csv_name", "filters">>,
                 {<<"csv_name">>, <<"filters">>}, {<<"csv_name">>, <<"filters">>}),
        ToolInfo("create_chart", <<"data", "chart_type", "x_column", "y_column">>,
                 {<<"chart_type">>, <<"x_column">>, <<"y_column">>, <<"data">>},
                 {<<"chart_type">>, <<"x_column">>, <<"y_column">>, <<"data">>})
     >>]

\* MainAgent(model): tool_registry defaults to None.
NoRegistry == [present |-> FALSE, tools |-> <<>>]

\* A registry with an entry that has no 'parameters' field.
MalformedRegistry ==
    [present |-> TRUE,
     tools |-> <<[name |-> "explore_csv", parameters |-> <<>>, wellFormed |-> FALSE,
                  required |-> {<<"csv_name">>},
                  accepted |-> {<<"csv_name">>, <<"max_unique">>}]>>]

Registries == {RealRegistry, NoRegistry, MalformedRegistry}

\* list(self.tools.keys())
ToolNames(reg) == [i \in 1..Len(reg.tools) |-> reg.tools[i].name]

\* tool_name in self.tools
Registered(reg, tool_name) == \E i \in 1..Len(reg.tools) : reg.tools[i].name = tool_name

\* self.tools[tool_name]
Lookup(reg, tool_name) ==
    reg.tools[CHOOSE i \in 1..Len(reg.tools) : reg.tools[i].name = tool_name]

\* function(**parameters): the call binds when parameters is a mapping whose
\* keys cover the required and stay within the accepted keyword arguments;
\* otherwise Python raises TypeError before the handler's body runs.
Binds(info, parameters) ==
    /\ parameters.kind = "dict"
    /\ info.required \subseteq KeySet(parameters)
    /\ KeySet(parameters) \subseteq info.accepted

\* The files under fixtures_path.
FixtureFiles == {<<"actuals.csv">>, <<"budget.csv">>, <<"fx.csv">>, <<"cash.csv">>}

\* The columns of the rows handed to create_chart.
DataColumns == {<<"month">>, <<"revenue">>}

\* Whether the handler's body raises: pd.read_csv on a file that does not
\* exist (lines 54, 122), create_chart on a column the data does not have
\* (lines 170-173).
HandlerRaises(tool_name, parameters) ==
    IF tool_name = "create_chart"
    THEN \/ Get(parameters, <<"x_column">>, VNone).v \notin DataColumns
         \/ Get(parameters, <<"y_column">>, VNone).v \notin DataColumns
    ELSE Get(parameters, <<"csv_name">>, VNone).v \notin FixtureFiles

\* What the data computed by a handler that returns may be.
HandlerBehaviours == {"returns", "returns_unencodable"}

\* Data a handler computes with pandas: plain Python values, or values the
\* json encoder does not know.
Computed(beh) ==
    IF beh = "returns_unencodable" THEN VObj("int64") ELSE VNum(<<"1">>)

\* The value a handler returns when its body does not raise.
HandlerReturn(tool_name, parameters, beh) ==
    CASE tool_name = "explore_csv" ->
            VDict(<<Item(<<"csv_name">>, Get(parameters, <<"csv_name">>, VNone)),
                    Item(<<"num_rows">>, VNum(<<"1">>)),
                    Item(<<"columns">>, VDict(<<Item(<<"top_values">>, Computed(beh))>>))>>)
      [] tool_name = "extract_csv_data" ->
            VDict(<<Item(<<"csv_name">>, Get(parameters, <<"csv_name">>, VNone)),
                    Item(<<"extracted_data">>, VList(<<Elem(Computed(beh))>>)),
                    Item(<<"row_count">>, VNum(<<"1">>))>>)
      [] OTHER ->
            VDict(<<Item(<<"render_type">>, VStr(<<"chart">>)),
                    Item(<<"chart_type">>, Get(parameters, <<"chart_type">>, VNone)),
                    Item(<<"data">>, Computed(beh)),
                    Item(<<"status">>, VStr(<<"success">>))>>)

\* str(e) of the exception a handler's body raises.
HandlerError(tool_name) ==
    CASE tool_name = "explore_csv" -> <<"Error exploring CSV '", "': ", "No such file">>
      [] tool_name = "extract_csv_data" -> <<"Error extracting data from '", "': ", "No such file">>
      [] OTHER -> <<"Error creating chart: ", "Column '", "' not found. Available: ">>

\* str(e) of the TypeError of a call that does not bind.
BindError(tool_name) == <<tool_name, "() got an unexpected or missing keyword argument">>

NotFoundResult(reg, tool_name) ==
    VDict(<<Item(<<"success">>, VBool(FALSE)),
            Item(<<"error">>,
                 VStr(<<"Tool '", tool_name, "' not found. Available tools: ">>
                      \o ToolNames(reg)))>>)

\* The success return (lines 226-229) with an 'error' field besides.
SuccessResult_WithError(value) ==
    VDict(<<Item(<<"success">>, VBool(TRUE)), Item(<<"result">>, value),
            Item(<<"error">>, VNone)>>)

SuccessResult(value) ==
    VDict(<<Item(<<"success">>, VBool(TRUE)), Item(<<"result">>, value)>>)

\* The except branch (lines 230-236) without the 'tool' and 'parameters'
\* fields.
ErrorResult_NoContext(tool_name, parameters, message) ==
    VDict(<<Item(<<"success">>, VBool(FALSE)),
            Item(<<"error">>, VStr(message))>>)

ErrorResult(tool_name, parameters, message) ==
    VDict(<<Item(<<"success">>, VBool(FALSE)),
            Item(<<"error">>, VStr(message)),
            Item(<<"tool">>, VStr(<<tool_name>>)),
            Item(<<"parameters">>, parameters)>>)

\* execute_tool without lines 218-222: the lookup of an unregistered name
\* raises KeyError inside the try block.
execute_tool_NoLookup(reg, tool_name, parameters, beh) ==
    IF ~Registered(reg, tool_name)
    THEN [result |-> ErrorResult(tool_name, parameters, <<"'", tool_name, "'">>),
          invoked |-> FALSE]
    ELSE IF ~Binds(Lookup(reg, tool_name), parameters)
    THEN [result |-> ErrorResult(tool_name, parameters, BindError(tool_name)),
          invoked |-> FALSE]
    ELSE IF HandlerRaises(tool_name, parameters)
    THEN [result |-> ErrorResult(tool_name, parameters, HandlerError(tool_name)),
          invoked |-> TRUE]
    ELSE [result |-> SuccessResult(HandlerReturn(tool_name, parameters, beh)),
          invoked |-> TRUE]

\* ToolRegistry.execute_tool: [result, invoked]; invoked tells whether the
\* handler's body ran.  beh is what the body computes if it returns.
execute_tool(reg, tool_name, parameters, beh) ==
    IF ~Registered(reg, tool_name)
    THEN [result |-> NotFoundResult(reg, tool_name), invoked |-> FALSE]
    ELSE IF ~Binds(Lookup(reg, tool_name), parameters)
    THEN [result |-> ErrorResult(tool_name, parameters, BindError(tool_name)),
          invoked |-> FALSE]
    ELSE IF HandlerRaises(tool_name, parameters)
    THEN [result |-> ErrorResult(tool_name, parameters, HandlerError(tool_name)),
          invoked |-> TRUE]
    ELSE [result |-> SuccessResult(HandlerReturn(tool_name, parameters, beh)),
          invoked |-> TRUE]

(***************************************************************************)
(* MainAgent.get_groq_tools: one function definition per registered tool.  *)
(***************************************************************************)
\* The description suffix of a parameter (lines 36-50).
ParamSuffix(param_name) ==
    CASE param_name \in {"filters", "data"} -> " Provide as JSON string."
      [] param_name \in {"group_by", "columns", "on_columns"} -> " Provide as JSON array string."
      [] OTHER -> ""

ParamSchema(param_name) ==
    [name |-> param_name, type |-> "string", suffix |-> ParamSuffix(param_name)]

\* The schema with the structured parameters (those told to come as JSON
\* strings) left out of 'required'.
GroqTool_StructuredOptional(info) ==
    [type |-> "function", name |-> info.name,
     properties |-> [i \in 1..Len(info.parameters) |-> ParamSchema(info.parameters[i])],
     required |-> SelectSeq(info.parameters, LAMBDA param_name : ParamSuffix(param_name) = "")]

GroqTool(info) ==
    [type |-> "function", name |-> info.name,
     properties |-> [i \in 1..Len(info.parameters) |-> ParamSchema(info.parameters[i])],
     required |-> info.parameters]

\* Whether get_groq_tools raises: self.tool_registry is None (AttributeError)
\* or an entry has no 'parameters' (KeyError).
SchemaRaises(reg) ==
    \/ ~reg.present
    \/ \E i \in 1..Len(reg.tools) : ~reg.tools[i].wellFormed

get_groq_tools(reg) == [i \in 1..Len(reg.tools) |-> GroqTool(reg.tools[i])]

(***************************************************************************)
(* Bounds of the model and what the language model may answer.             *)
(***************************************************************************)
\* max_iterations of process_query.
max_iterations == 15

\* The tool calls of one model response.
MaxCallsPerTurn == 2

\* The model chooses its tool calls freely until this many tool calls have
\* been executed; from then on it requests DefaultCall.
MaxVaried == 2

\* A cap on the model calls of one invocation (never reached by the loop
\* as written, which stops at max_iterations).
MaxModelCalls == 16

Queries == {"What was June 2025 revenue?"}

ExploreArgs ==
    <<Punct("{"), StrTok(<<"csv_name">>), Punct(":"), StrTok(<<"actuals.csv">>), Punct("}")>>

\* The rows handed to create_chart, as the JSON string the schema asks for.
ChartRows == "[{\"month\": \"2023-01\", \"revenue\": 500000}]"

ChartArgs(chart_type, x_column) ==
    <<Punct("{"), StrTok(<<"data">>), Punct(":"), StrTok(<<ChartRows>>), Punct(","),
      StrTok(<<"chart_type">>), Punct(":"), StrTok(<<chart_type>>), Punct(","),
      StrTok(<<"x_column">>), Punct(":"), StrTok(<<x_column>>), Punct(","),
      StrTok(<<"y_column">>), Punct(":"), StrTok(<<"revenue">>), Punct("}")>>

\* "not valid json {{" of the tests: text json.loads rejects.
MalformedArgs == <<Punct("{"), StrTok(<<"csv_name">>), Punct(":"), Punct("{"), Punct("{")>>

\* Valid JSON that is not an object.
ListArgs == <<Punct("["), NumTok(<<"1">>), Punct("]")>>

Call(name, arguments) == [name |-> name, arguments |-> arguments]

DefaultCall == Call("explore_csv", ExploreArgs)

ModelToolCalls ==
    {DefaultCall,
     Call("explore_csv", MalformedArgs),
     Call("create_chart", ChartArgs("bar", "month")),
     Call("create_chart", ChartArgs("line", "month")),
     Call("create_chart", ChartArgs("bar", "entity")),
     Call("no_such_tool", ListArgs)}

\* The exceptions a model call raises.
ApiErrors == {"API connection timeout"}

\* The content of a response without tool calls: text, or None.
FinalContents == {VStr(<<"Revenue was $500,000.">>), VNone}

\* The tool-call lists a response may carry after `done` executions.
CallLists(done) ==
    IF done >= MaxVaried THEN {<<DefaultCall>>}
    ELSE UNION {[1..n -> ModelToolCalls] :
                  n \in 1..(IF MaxVaried - done < MaxCallsPerTurn
                            THEN MaxVaried - done ELSE MaxCallsPerTurn)}

(***************************************************************************)
(* The state.                                                              *)
(***************************************************************************)
VARIABLES
    tool_registry,          \* self.tool_registry
    conversation_history,   \* self.conversation_history
    pc,                     \* "idle", "loop", "tools", "returned", "raised"
    messages,               \* process_query's messages
    tools,                  \* process_query's tools (the schema)
    iteration,              \* process_query's iteration
    execution_log,          \* process_query's execution_log
    tool_calls,             \* response_message.tool_calls of the current turn
    index,                  \* enumerate()'s position in tool_calls (1-based)
    result,                 \* what process_query returned
    outcome,                \* which return was taken: "Done", "Failed", "Exhausted"
    failedIn,               \* where the exception caught at line 208 arose
    modelCalls,             \* chat.completions.create calls of this invocation
    registryCalls,          \* execute_tool calls of this invocation
    handlerCalls,           \* handler bodies run in this invocation
    sent,                   \* the messages argument of the latest model call
    reused,                 \* an earlier call of process_query was made on this agent
    shared                  \* another loop instance has used the registry

vars == <<tool_registry, conversation_history, pc, messages, tools, iteration,
          execution_log, tool_calls, index, result, outcome, failedIn,
          modelCalls, registryCalls, handlerCalls, sent, reused, shared>>

\* What is recorded about the other users of the agent and of the registry.
history == <<reused, shared>>

Message(role, content, calls, id, name) ==
    [role |-> role, content |-> content, tool_calls |-> calls,
     tool_call_id |-> id, name |-> name]

SystemMessage == Message("system", VStr(<<"system_prompt">>), <<>>, <<>>, "")

UserMessage(q) == Message("user", VStr(<<q>>), <<>>, <<>>, "")

\* The message object of a model response.
ResponseMessage(content, calls) == Message("assistant", content, calls, <<>>, "")

\* A str holding JSON text.
JsonText(tokens) == [kind |-> "str", v |-> <<>>, items |-> tokens]

ToolMessage(id, name, text) == Message("tool", text, <<>>, id, name)

InitialMessages(q) == <<SystemMessage, UserMessage(q)>>

LogEntry(tool, arguments, res) == [tool |-> tool, arguments |-> arguments, result |-> res]

NoResult ==
    [answer |-> VNone, chart_data |-> VNone, has_chart_data |-> FALSE,
     execution_log |-> <<>>, success |-> FALSE, iterations |-> 0]

\* while True
WhileCond_Unbounded(it) == TRUE

\* while iteration < max_iterations - 1
WhileCond_OneShort(it) == it < max_iterations - 1

\* while iteration < max_iterations
WhileCond(it) == it < max_iterations

\* iteration += 2
NextIteration_Twice(it) == it + 2

\* iteration += 1
NextIteration(it) == it + 1

\* json.loads on each argument text the model may send, decoded once.
Decoded == [raw \in {c.arguments : c \in ModelToolCalls} |-> json_loads(raw)]

\* tool_args = None in the except branch.
ParseArguments_None(raw) ==
    IF Decoded[raw].ok THEN Decoded[raw].val ELSE VNone

\* The argument map the loop goes on with (lines 149-153).
ParseArguments(raw) ==
    IF Decoded[raw].ok THEN Decoded[raw].val ELSE VDict(<<>>)

RECURSIVE ChartScan_First(_, _, _)

\* The scan stopping at the first match.
ChartScan_First(log, i, chart_data) ==
    IF i > Len(log) THEN chart_data
    ELSE IF log[i].tool = "create_chart"
            /\ Truthy(Get(log[i].result, <<"success">>, VNone))
         THEN Get(log[i].result, <<"result">>, VDict(<<>>))
         ELSE ChartScan_First(log, i + 1, chart_data)

RECURSIVE ChartScan(_, _, _)

\* Lines 189-192: scan the log front to back, keeping the last match.
ChartScan(log, i, chart_data) ==
    IF i > Len(log) THEN chart_data
    ELSE ChartScan(log, i + 1,
            IF log[i].tool = "create_chart"
               /\ Truthy(Get(log[i].result, <<"success">>, VNone))
            THEN Get(log[i].result, <<"result">>, VDict(<<>>))
            ELSE chart_data)

ChartData(log) == ChartScan(log, 1, VNone)

\* "success" computed from the tool results instead of True.
DoneResult_AllSucceeded(answer, log, it) ==
    [answer |-> answer, chart_data |-> ChartData(log), has_chart_data |-> TRUE,
     execution_log |-> log,
     success |-> \A i \in 1..Len(log) : Truthy(Get(log[i].result, <<"success">>, VNone)),
     iterations |-> it]

\* The three results process_query builds.
DoneResult(answer, log, it) ==
    [answer |-> answer, chart_data |-> ChartData(log), has_chart_data |-> TRUE,
     execution_log |-> log, success |-> TRUE, iterations |-> it]

\* The except branch reporting the iterations completed before the failing
\* one.
FailedResult_Completed(message, log, it) ==
    [answer |-> VStr(<<"Error occurred during processing: ">> \o message),
     chart_data |-> VNone, has_chart_data |-> FALSE,
     execution_log |-> log, success |-> FALSE, iterations |-> it - 1]

\* The except branch answering without str(e) and without the log.
FailedResult_NoCause(message, log, it) ==
    [answer |-> VStr(<<"Error occurred during processing">>),
     chart_data |-> VNone, has_chart_data |-> FALSE,
     execution_log |-> <<>>, success |-> FALSE, iterations |-> it]

FailedResult(message, log, it) ==
    [answer |-> VStr(<<"Error occurred during processing: ">> \o message),
     chart_data |-> VNone, has_chart_data |-> FALSE,
     execution_log |-> log, success |-> FALSE, iterations |-> it]

\* The exhaustion return with "success" computed from the tool results.
ExhaustedResult_ByTools(log) ==
    [answer |-> VStr(<<"Could not complete analysis within iteration limit">>),
     chart_data |-> VNone, has_chart_data |-> FALSE,
     execution_log |-> log,
     success |-> \A i \in 1..Len(log) : Truthy(Get(log[i].result, <<"success">>, VNone)),
     iterations |-> max_iterations]

ExhaustedResult(log) ==
    [answer |-> VStr(<<"Could not complete analysis within iteration limit">>),
     chart_data |-> VNone, has_chart_data |-> FALSE,
     execution_log |-> log, success |-> FALSE, iterations |-> max_iterations]

(***************************************************************************)
(* The operations.                                                         *)
(***************************************************************************)
\* A try block around the model call alone.
TryCovers_ModelCallOnly(where) == where = "model_call"

\* The try block of the loop body spans the model call and the tool step
\* (lines 119-206); its handler is `except Exception` (line 208).
TryCovers(where) == where \in {"model_call", "tool_step"}

\* An exception with text `message` arising at `where` inside the loop body.
Throw(where, message, log) ==
    /\ failedIn' = where
    /\ IF TryCovers(where)
       THEN /\ pc' = "returned"
            /\ outcome' = "Failed"
            /\ result' = FailedResult(message, log, iteration')
       ELSE /\ pc' = "raised"
            /\ outcome' = "Raised"
            /\ result' = NoResult

Init ==
    /\ tool_registry \in Registries
    /\ conversation_history = <<>>
    /\ pc = "idle"
    /\ messages = <<>>
    /\ tools = <<>>
    /\ iteration = 0
    /\ execution_log = <<>>
    /\ tool_calls = <<>>
    /\ index = 0
    /\ result = NoResult
    /\ outcome = "none"
    /\ failedIn = "none"
    /\ modelCalls = 0
    /\ registryCalls = 0
    /\ handlerCalls = 0
    /\ sent = <<>>
    /\ reused = FALSE
    /\ shared = FALSE

\* process_query up to the loop (lines 71-111): the messages, the schema,
\* the counters.  get_groq_tools is called outside the try block.
\* The model is sent the latest message only.
Sent_Latest(msgs) == SubSeq(msgs, Len(msgs), Len(msgs))

\* messages=messages (line 122): the conversation built so far.
Sent(msgs) == msgs

\* The log of a call starting with what the previous call left.
StartLog_Kept(previous) == previous

\* execution_log = [] (line 110): a list local to the call, whatever the
\* previous call left.
StartLog(previous) == <<>>

process_query(q) ==
    /\ pc \in {"idle", "returned", "raised"}
    /\ iteration' = 0
    /\ execution_log' = StartLog(execution_log)
    /\ tool_calls' = <<>>
    /\ index' = 0
    /\ result' = NoResult
    /\ failedIn' = "none"
    /\ modelCalls' = 0
    /\ registryCalls' = 0
    /\ handlerCalls' = 0
    /\ sent' = <<>>
    /\ IF SchemaRaises(tool_registry)
       THEN /\ pc' = "raised"
            /\ outcome' = "Raised"
            /\ messages' = <<>>
            /\ tools' = <<>>
       ELSE /\ pc' = "loop"
            /\ outcome' = "none"
            /\ messages' = InitialMessages(q)
            /\ tools' = get_groq_tools(tool_registry)
    /\ UNCHANGED <<tool_registry, conversation_history>>

\* A call of process_query.
ProcessQuery(q) ==
    /\ process_query(q)
    /\ UNCHANGED history

\* A call of process_query on an agent that has served one, recorded.
ProcessQueryAgain(q) ==
    /\ pc \in {"returned", "raised"}
    /\ process_query(q)
    /\ reused' = TRUE
    /\ UNCHANGED shared

\* The model call of one iteration raises (lines 121-128, 208-215).
ModelCallRaises(err) ==
    /\ pc = "loop"
    /\ WhileCond(iteration)
    /\ modelCalls < MaxModelCalls
    /\ iteration' = NextIteration(iteration)
    /\ modelCalls' = modelCalls + 1
    /\ sent' = Sent(messages)
    /\ Throw("model_call", <<err>>, execution_log)
    /\ UNCHANGED <<tool_registry, conversation_history, messages, tools,
                   execution_log, tool_calls, index, registryCalls, handlerCalls>>
    /\ UNCHANGED history

\* The tool calls of the last allowed turn are left unexecuted.
ToolBranch_SkipLast(it) == IF it >= max_iterations THEN "loop" ELSE "tools"

\* if response_message.tool_calls (line 136): the for loop over the calls
\* is entered in every turn, the last one included.
ToolBranch(it) == "tools"

\* The model call returns a response with tool calls (lines 121-137).
ModelCallTools(calls) ==
    /\ pc = "loop"
    /\ WhileCond(iteration)
    /\ modelCalls < MaxModelCalls
    /\ iteration' = NextIteration(iteration)
    /\ modelCalls' = modelCalls + 1
    /\ sent' = Sent(messages)
    /\ LET withIds == [i \in 1..Len(calls) |->
                          [id |-> <<iteration', i>>, name |-> calls[i].name,
                           arguments |-> calls[i].arguments]]
       IN /\ messages' = Append(messages, ResponseMessage(VNone, withIds))
          /\ tool_calls' = withIds
    /\ index' = 1
    /\ pc' = ToolBranch(iteration')
    /\ UNCHANGED <<tool_registry, conversation_history, tools, execution_log,
                   result, outcome, failedIn, registryCalls, handlerCalls>>
    /\ UNCHANGED history

\* The model call returns a response without tool calls (lines 184-206).
ModelCallFinal(content) ==
    /\ pc = "loop"
    /\ WhileCond(iteration)
    /\ modelCalls < MaxModelCalls
    /\ iteration' = NextIteration(iteration)
    /\ modelCalls' = modelCalls + 1
    /\ sent' = Sent(messages)
    /\ messages' = Append(messages, ResponseMessage(content, <<>>))
    /\ result' = DoneResult(content, execution_log, iteration')
    /\ outcome' = "Done"
    /\ pc' = "returned"
    /\ UNCHANGED <<tool_registry, conversation_history, tools, execution_log,
                   tool_calls, index, failedIn, registryCalls, handlerCalls>>
    /\ UNCHANGED history

\* One pass of the for loop over the tool calls (lines 140-182).
\* Lines 149-156 and the json.dumps of line 181 for each registry, tool call
\* and handler behaviour, tabulated: [tool_args, ex, dumped].
Executed ==
    [reg \in {r \in Registries : ~SchemaRaises(r)}, name \in {c.name : c \in ModelToolCalls},
     raw \in {c.arguments : c \in ModelToolCalls}, beh \in HandlerBehaviours |->
        LET ex == execute_tool(reg, name, ParseArguments(raw), beh)
        IN [tool_args |-> ParseArguments(raw), ex |-> ex, dumped |-> json_dumps(ex.result)]]

\* A registry that drops a tool once it has been executed.
RegistryAfter_Consumes(reg, tool_name) ==
    [reg EXCEPT !.tools = SelectSeq(reg.tools, LAMBDA t : t.name # tool_name)]

\* self.tools after execute_tool (tools.py lines 216-236) and after
\* get_groq_tools (main_agent.py lines 18-69): both only read it.
RegistryAfter(reg, tool_name) == reg

\* The tool calls of a response taken last first.
CurrentCall_Reversed(calls, idx) == calls[Len(calls) + 1 - idx]

\* for tool_call in response_message.tool_calls (line 140): the idx-th pass.
CurrentCall(calls, idx) == calls[idx]

ToolStep(beh) ==
    /\ pc = "tools"
    /\ LET tool_call == CurrentCall(tool_calls, index)
           tool_name == tool_call.name
           done == Executed[tool_registry, tool_name, tool_call.arguments, beh]
           tool_args == done.tool_args
           ex == done.ex
           log == Append(execution_log, LogEntry(tool_name, tool_args, ex.result))
           dumped == done.dumped
       IN /\ registryCalls' = registryCalls + 1
          /\ handlerCalls' = handlerCalls + (IF ex.invoked THEN 1 ELSE 0)
          /\ execution_log' = log
          /\ IF dumped.ok
             THEN /\ messages' = Append(messages,
                        ToolMessage(tool_call.id, tool_name, JsonText(dumped.text)))
                  /\ IF index < Len(tool_calls)
                     THEN /\ index' = index + 1
                          /\ pc' = "tools"
                     ELSE /\ index' = 0
                          /\ pc' = "loop"
                  /\ UNCHANGED <<result, outcome, failedIn, iteration>>
             ELSE /\ iteration' = iteration
                  /\ Throw("tool_step", dumped.error, log)
                  /\ UNCHANGED <<messages, index>>
    /\ tool_registry' = RegistryAfter(tool_registry, CurrentCall(tool_calls, index).name)
    /\ UNCHANGED <<conversation_history, tools, tool_calls, modelCalls>>
    /\ UNCHANGED sent
    /\ UNCHANGED history

\* The loop ends without a return (lines 113, 217-222).
LoopExit ==
    /\ pc = "loop"
    /\ ~WhileCond(iteration)
    /\ result' = ExhaustedResult(execution_log)
    /\ outcome' = "Exhausted"
    /\ pc' = "returned"
    /\ UNCHANGED <<tool_registry, conversation_history, messages, tools, iteration,
                   execution_log, tool_calls, index, failedIn, modelCalls,
                   registryCalls, handlerCalls>>
    /\ UNCHANGED sent
    /\ UNCHANGED history

\* The steps of a running invocation.
LoopStep ==
    \/ \E err \in ApiErrors : ModelCallRaises(err)
    \/ \E calls \in CallLists(Len(execution_log)) : ModelCallTools(calls)
    \/ \E content \in FinalContents : ModelCallFinal(content)
    \/ \E beh \in HandlerBehaviours : ToolStep(beh)
    \/ LoopExit

Next ==
    \/ \E q \in Queries : ProcessQuery(q)
    \/ \E err \in ApiErrors : ModelCallRaises(err)
    \/ \E calls \in CallLists(Len(execution_log)) : ModelCallTools(calls)
    \/ \E content \in FinalContents : ModelCallFinal(content)
    \/ \E beh \in HandlerBehaviours : ToolStep(beh)
    \/ LoopExit

Spec == Init /\ [][Next]_vars

\* The calls an application makes on one agent, one after the other
\* (app.py creates the agent once and calls process_query per question),
\* with the reuse recorded.
ReuseNext ==
    \/ \E q \in Queries : ProcessQuery(q)
    \/ \E q \in Queries : ProcessQueryAgain(q)
    \/ \E err \in ApiErrors : ModelCallRaises(err)
    \/ \E calls \in CallLists(Len(execution_log)) : ModelCallTools(calls)
    \/ \E content \in FinalContents : ModelCallFinal(content)
    \/ \E beh \in HandlerBehaviours : ToolStep(beh)
    \/ LoopExit

ReuseSpec == Init /\ [][ReuseNext]_vars

\* Between two steps of the loop, another loop instance that shares the
\* registry executes a tool.
PeerExecutes(tool_name) ==
    /\ pc \in {"loop", "tools"}
    /\ tool_registry' = RegistryAfter(tool_registry, tool_name)
    /\ shared' = TRUE
    /\ UNCHANGED <<conversation_history, pc, messages, tools, iteration,
                   execution_log, tool_calls, index, result, outcome, failedIn,
                   modelCalls, registryCalls, handlerCalls, sent, reused>>

\* Between two steps of the loop, another loop instance that shares the
\* registry builds its schema.
PeerBuildsSchema ==
    /\ pc \in {"loop", "tools"}
    /\ tool_registry' = RegistryAfter(tool_registry, "")
    /\ shared' = TRUE
    /\ UNCHANGED <<conversation_history, pc, messages, tools, iteration,
                   execution_log, tool_calls, index, result, outcome, failedIn,
                   modelCalls, registryCalls, handlerCalls, sent, reused>>

\* A loop instance whose steps interleave with those of other instances
\* using the same ToolRegistry.
SharedNext ==
    \/ \E q \in Queries : ProcessQuery(q)
    \/ \E err \in ApiErrors : ModelCallRaises(err)
    \/ \E calls \in CallLists(Len(execution_log)) : ModelCallTools(calls)
    \/ \E content \in FinalContents : ModelCallFinal(content)
    \/ \E beh \in HandlerBehaviours : ToolStep(beh)
    \/ LoopExit
    \/ \E tool_name \in {call.name : call \in ModelToolCalls} : PeerExecutes(tool_name)
    \/ PeerBuildsSchema

SharedSpec == Init /\ [][SharedNext]_vars

\* Every model call and tool execution returns or raises: a running
\* invocation keeps taking steps.
FairSpec == Spec /\ WF_vars(LoopStep)

(***************************************************************************)
(* Properties.                                                             *)
(***************************************************************************)
Last(seq) == seq[Len(seq)]

Running == pc \in {"loop", "tools"}

Returned == pc = "returned"

RECURSIVE RequestedFrom(_, _)

\* The tool calls of the responses in msgs from position i on, in order.
RequestedFrom(msgs, i) ==
    IF i > Len(msgs) THEN <<>>
    ELSE (IF msgs[i].role = "assistant" THEN msgs[i].tool_calls ELSE <<>>)
         \o RequestedFrom(msgs, i + 1)

\* Every tool call the model has requested in this invocation.
Requested == RequestedFrom(messages, 1)

\* The responses received in this invocation.
Responses == {i \in 1..Len(messages) : messages[i].role = "assistant"}

\* The responses that carried tool calls.
ToolTurns == {i \in Responses : messages[i].tool_calls # <<>>}

\* The log lists one entry per requested call, in request order.
LogMatchesRequests(log) ==
    /\ Len(log) = Len(Requested)
    /\ \A i \in 1..Len(log) : log[i].tool = Requested[i].name

Succeeded(res) == Truthy(Get(res, <<"success">>, VNone))

\* C1: every invocation that enters the loop reaches one of the returns
\* Done, Failed or Exhausted, whatever the model answers, provided every
\* model call and tool execution returns or raises.
C1_Terminates ==
    Running ~> (Returned /\ outcome \in {"Done", "Failed", "Exhausted"})

C1_Witness ==
    /\ Returned
    /\ outcome = "Exhausted"
    /\ modelCalls = max_iterations

\* C2: when the model call of iteration k raises, process_query returns at
\* once: success is false, the answer embeds the exception text, the log is
\* the entries of the turns before k, iterations is k, and nothing of the
\* loop runs afterwards.
C2_ModelCallFailure ==
    (Returned /\ failedIn = "model_call") =>
        /\ outcome = "Failed"
        /\ result.success = FALSE
        /\ \E err \in ApiErrors : \E i \in 1..Len(result.answer.v) : result.answer.v[i] = err
        /\ result.execution_log = execution_log
        /\ LogMatchesRequests(result.execution_log)
        /\ registryCalls = Len(execution_log)
        /\ result.iterations = modelCalls
        /\ Cardinality(Responses) = modelCalls - 1
        /\ modelCalls \in 1..max_iterations
        /\ ~ENABLED LoopStep

C2_Witness ==
    /\ Returned
    /\ failedIn = "model_call"
    /\ result.iterations = 3
    /\ Len(result.execution_log) = 2

\* C3: process_query returns the Failed result only if a model call raised;
\* nothing in the tool step ends the loop.
C3_OnlyModelCallFatal ==
    outcome = "Failed" => failedIn = "model_call"

\* C4: when the model requested tool calls in turns 1..n-1 and answered
\* without tool calls in turn n, process_query returns success, iterations
\* = n, the text of the n-th response as answer, after exactly n model
\* calls and one registry execution and log entry per requested call.
C4_DoneAfterToolTurns ==
    (Returned /\ outcome = "Done") =>
        /\ result.success = TRUE
        /\ result.iterations = modelCalls
        /\ Cardinality(Responses) = modelCalls
        /\ Cardinality(ToolTurns) = modelCalls - 1
        /\ Last(messages).role = "assistant"
        /\ result.answer = Last(messages).content
        /\ LogMatchesRequests(result.execution_log)
        /\ registryCalls = Len(Requested)

C4_Witness ==
    /\ Returned
    /\ outcome = "Done"
    /\ result.iterations = 3
    /\ Len(result.execution_log) = 2
    /\ result.answer = VStr(<<"Revenue was $500,000.">>)

\* C5: when the model requested tool calls in each of 15 turns and no model
\* call raised, process_query returns the Exhausted result: success false,
\* iterations 15, the iteration-limit answer, after exactly 15 model calls.
C5_ExhaustedAfterMaxTurns ==
    (Returned /\ Cardinality(ToolTurns) = max_iterations) =>
        /\ outcome = "Exhausted"
        /\ result.success = FALSE
        /\ result.iterations = max_iterations
        /\ result.answer = VStr(<<"Could not complete analysis within iteration limit">>)
        /\ modelCalls = max_iterations

\* C6: a tool call whose arguments are not JSON is executed with the empty
\* map: the registry is called once, one log entry with the empty map and
\* one tool message are appended, and the loop goes on.
C6_MalformedArguments ==
    [][(pc = "tools" /\ ~Decoded[tool_calls[index].arguments].ok) =>
          /\ registryCalls' = registryCalls + 1
          /\ Len(execution_log') = Len(execution_log) + 1
          /\ Last(execution_log').tool = tool_calls[index].name
          /\ Last(execution_log').arguments = VDict(<<>>)
          /\ Len(messages') = Len(messages) + 1
          /\ Last(messages').role = "tool"
          /\ Last(messages').tool_call_id = tool_calls[index].id
          /\ pc' \in {"tools", "loop"}]_vars

C6_Witness ==
    /\ pc = "tools"
    /\ modelCalls = 2
    /\ Len(execution_log) = 1
    /\ execution_log[1].arguments = VDict(<<>>)
    /\ ~Decoded[Requested[1].arguments].ok

\* C7: a tool execution whose result has success = false does not end the
\* loop: the result is logged and appended as a tool message and the loop
\* goes on; a Done result is success = true even when entries of its log
\* failed, and those entries keep the tool's error text.
C7_FailedToolGoesOn ==
    /\ [][(pc = "tools" /\ Len(execution_log') = Len(execution_log) + 1
              /\ ~Succeeded(Last(execution_log').result)) =>
            /\ pc' \in {"tools", "loop"}
            /\ Len(messages') = Len(messages) + 1
            /\ Last(messages').role = "tool"
            /\ Last(messages').tool_call_id = tool_calls[index].id
            /\ Last(messages').content = JsonText(Encode(Last(execution_log').result))
            /\ Get(Last(execution_log').result, <<"error">>, VNone).kind = "str"]_vars
    /\ [](outcome = "Done" =>
            /\ result.success = TRUE
            /\ result.execution_log = execution_log)

C7_Witness ==
    /\ Returned
    /\ outcome = "Done"
    /\ result.success = TRUE
    /\ Len(result.execution_log) = 2
    /\ ~Succeeded(result.execution_log[1].result)
    /\ ~Succeeded(result.execution_log[2].result)
    /\ result.execution_log[1].tool = "no_such_tool"
    /\ result.execution_log[2].tool = "create_chart"

\* C8 as stated: process_query never raises to its caller.
C8_NeverRaises == pc # "raised"

\* C8 as amended: process_query raises only from get_groq_tools, before the
\* loop; whatever fails inside the loop is returned as a result with
\* success = false and a text answer.
C8_RaisesOnlyBuildingSchema ==
    /\ pc = "raised" =>
          /\ SchemaRaises(tool_registry)
          /\ modelCalls = 0
          /\ registryCalls = 0
          /\ failedIn = "none"
    /\ failedIn # "none" =>
          /\ Returned
          /\ outcome = "Failed"
          /\ result.success = FALSE
          /\ result.answer.kind = "str"
          /\ Len(result.answer.v) > 1
          /\ result.iterations = iteration

C8_Witness ==
    /\ Returned
    /\ failedIn = "tool_step"
    /\ result.success = FALSE

\* C9: whatever the return, the answer of the result is a text string.
C9_AnswerIsText ==
    Returned => result.answer.kind = "str"

\* The registries that hold some of the real registry's tools, the empty
\* one included.
RegistryContents ==
    {[present |-> TRUE,
      tools |-> SelectSeq(RealRegistry.tools, LAMBDA t : t.name \in keep)] :
        keep \in SUBSET {RealRegistry.tools[i].name : i \in 1..Len(RealRegistry.tools)}}

\* The argument values the raw argument strings decode to.
ArgumentValues == {ParseArguments(c.arguments) : c \in ModelToolCalls}

\* The not-found result: success = false, no result, an error text naming
\* every registered tool.
NamesAvailable(reg, res) ==
    /\ Get(res, <<"success">>, VNone) = VBool(FALSE)
    /\ ~HasKey(res, <<"result">>)
    /\ Get(res, <<"error">>, VNone).kind = "str"
    /\ \A i \in 1..Len(reg.tools) :
          \E j \in 1..Len(Get(res, <<"error">>, VNone).v) :
             Get(res, <<"error">>, VNone).v[j] = reg.tools[i].name

\* execute_tool on every registry content, unregistered name and argument
\* value.
NotFoundEverywhere ==
    \A reg \in RegistryContents, c \in ModelToolCalls,
       args \in ArgumentValues, beh \in HandlerBehaviours :
       ~Registered(reg, c.name) =>
          /\ ~execute_tool(reg, c.name, args, beh).invoked
          /\ NamesAvailable(reg, execute_tool(reg, c.name, args, beh).result)

\* C10: execute_tool on a name that is not registered returns success =
\* false and an error naming the registered tools, without running any
\* handler and without raising: for every registry content and argument
\* value, and at every such call the loop makes.
C10_UnknownTool ==
    /\ []NotFoundEverywhere
    /\ [][(pc = "tools" /\ ~Registered(tool_registry, tool_calls[index].name)) =>
          LET res == Last(execution_log').result IN
          /\ Len(execution_log') = Len(execution_log) + 1
          /\ handlerCalls' = handlerCalls
          /\ pc' # "raised"
          /\ NamesAvailable(tool_registry, res)]_vars

C10_Witness ==
    /\ tool_registry = RealRegistry
    /\ Len(execution_log) = 2
    /\ execution_log[2].tool = "no_such_tool"
    /\ ~Registered(tool_registry, execution_log[2].tool)
    /\ execution_log[2].arguments.kind = "list"
    /\ handlerCalls = 1

\* Calling the registered tool's handler with these arguments raises: the
\* call does not bind, or the body raises.
HandlerFails(reg, tool_name, parameters) ==
    /\ Registered(reg, tool_name)
    /\ \/ ~Binds(Lookup(reg, tool_name), parameters)
       \/ HandlerRaises(tool_name, parameters)

\* str(e) of the exception of such a call.
RaisedMessage(reg, tool_name, parameters) ==
    IF ~Binds(Lookup(reg, tool_name), parameters)
    THEN BindError(tool_name)
    ELSE HandlerError(tool_name)

\* The result reports the exception: success = false, the message, the tool
\* name and the arguments, and no result.
ErrorReported(res, tool_name, parameters, message) ==
    /\ Get(res, <<"success">>, VNone) = VBool(FALSE)
    /\ Get(res, <<"error">>, VNone) = VStr(message)
    /\ Get(res, <<"tool">>, VNone) = VStr(<<tool_name>>)
    /\ HasKey(res, <<"parameters">>)
    /\ Get(res, <<"parameters">>, VNone) = parameters
    /\ ~HasKey(res, <<"result">>)

\* execute_tool on every registry content, registered name and argument
\* value with which the handler raises.
RaisedEverywhere ==
    \A reg \in RegistryContents, c \in ModelToolCalls,
       args \in ArgumentValues, beh \in HandlerBehaviours :
       HandlerFails(reg, c.name, args) =>
          ErrorReported(execute_tool(reg, c.name, args, beh).result, c.name, args,
                        RaisedMessage(reg, c.name, args))

\* C11: when the handler of a registered tool raises on the given arguments
\* (a body that raises, or arguments that do not match its parameters),
\* execute_tool returns success = false with the exception message, the tool
\* name and the arguments, and nothing escapes: for every registry content
\* and argument value, and at every such call the loop makes.
C11_HandlerExceptionReported ==
    /\ []RaisedEverywhere
    /\ [][(/\ pc = "tools"
           /\ HandlerFails(tool_registry, tool_calls[index].name,
                           ParseArguments(tool_calls[index].arguments))) =>
          LET entry == Last(execution_log') IN
          /\ Len(execution_log') = Len(execution_log) + 1
          /\ pc' \in {"tools", "loop"}
          /\ entry.tool = tool_calls[index].name
          /\ ErrorReported(entry.result, entry.tool,
                           ParseArguments(tool_calls[index].arguments),
                           RaisedMessage(tool_registry, entry.tool,
                                         ParseArguments(tool_calls[index].arguments)))]_vars

C11_Witness ==
    /\ Len(execution_log) = 2
    /\ execution_log[1].tool = "create_chart"
    /\ HandlerRaises("create_chart", execution_log[1].arguments)
    /\ Get(execution_log[1].result, <<"error">>, VNone) = VStr(HandlerError("create_chart"))
    /\ execution_log[2].tool = "explore_csv"
    /\ execution_log[2].arguments = VDict(<<>>)
    /\ Get(execution_log[2].result, <<"error">>, VNone) = VStr(BindError("explore_csv"))
    /\ handlerCalls = 1

\* A tool result holds either success = true with a result and no error, or
\* success = false with an error and no result.
WellFormedResult(res) ==
    /\ res.kind = "dict"
    /\ \/ /\ Get(res, <<"success">>, VNone) = VBool(TRUE)
          /\ HasKey(res, <<"result">>)
          /\ ~HasKey(res, <<"error">>)
       \/ /\ Get(res, <<"success">>, VNone) = VBool(FALSE)
          /\ HasKey(res, <<"error">>)
          /\ Get(res, <<"error">>, VNone).kind = "str"
          /\ ~HasKey(res, <<"result">>)

\* execute_tool on every registry content, name, argument value and handler
\* behaviour; a success holds what the handler returned.
WellFormedEverywhere ==
    \A reg \in RegistryContents, c \in ModelToolCalls,
       args \in ArgumentValues, beh \in HandlerBehaviours :
       LET ex == execute_tool(reg, c.name, args, beh) IN
       /\ WellFormedResult(ex.result)
       /\ Succeeded(ex.result) <=>
             (Registered(reg, c.name) /\ ~HandlerFails(reg, c.name, args))
       /\ Succeeded(ex.result) =>
             Get(ex.result, <<"result">>, VNone) = HandlerReturn(c.name, args, beh)

\* C12: every value execute_tool returns is well-formed, success = true
\* with the handler's return value as result and no error, or success =
\* false with an error and no result: for every registry content, name and
\* argument value, and for every result the loop has logged.
C12_ResultWellFormed ==
    /\ WellFormedEverywhere
    /\ \A i \in 1..Len(execution_log) :
          /\ WellFormedResult(execution_log[i].result)
          /\ Succeeded(execution_log[i].result) =>
                \E beh \in HandlerBehaviours :
                   Get(execution_log[i].result, <<"result">>, VNone)
                      = HandlerReturn(execution_log[i].tool,
                                      execution_log[i].arguments, beh)

C12_Witness ==
    /\ Len(execution_log) = 3
    /\ ~Registered(tool_registry, execution_log[1].tool)
    /\ HandlerFails(tool_registry, execution_log[2].tool, execution_log[2].arguments)
    /\ Succeeded(execution_log[3].result)
    /\ HasKey(execution_log[3].result, <<"result">>)

\* The entries of the log that are successful create_chart executions.
ChartEntries(log) ==
    {i \in 1..Len(log) :
        /\ log[i].tool = "create_chart"
        /\ Get(log[i].result, <<"success">>, VNone) = VBool(TRUE)}

\* C13: when process_query returns Done, chart_data is what the handler
\* returned in the latest log entry that is a successful create_chart
\* execution, and None when the log holds no such entry; failed create_chart
\* entries and entries of other tools never supply it.
C13_LatestChartWins ==
    (Returned /\ outcome = "Done") =>
        LET log == result.execution_log
            charts == ChartEntries(log)
        IN /\ result.has_chart_data
           /\ IF charts = {}
              THEN result.chart_data = VNone
              ELSE \E i \in charts :
                      /\ \A j \in charts : j <= i
                      /\ result.chart_data = Get(log[i].result, <<"result">>, VNone)

C13_Witness ==
    /\ Returned
    /\ outcome = "Done"
    /\ Len(result.execution_log) = 3
    /\ ChartEntries(result.execution_log) = {1, 2}
    /\ result.execution_log[1].result # result.execution_log[2].result
    /\ result.chart_data = Get(result.execution_log[2].result, <<"result">>, VNone)
    /\ result.chart_data # Get(result.execution_log[1].result, <<"result">>, VNone)

\* The log holds the first requested calls, in request order, each with the
\* name and the decoded arguments of its request.
ExecutedInOrder(log) ==
    LET requested == Requested IN
    /\ Len(log) <= Len(requested)
    /\ \A i \in 1..Len(log) :
          /\ log[i].tool = requested[i].name
          /\ log[i].arguments = ParseArguments(requested[i].arguments)

\* C14: tool calls are executed one at a time in the order the model gave
\* them, every call of a turn before the next model call, and the log lists
\* the executions in that order across turns; no step is both a model call
\* and a tool execution.
C14_SequentialInOrder ==
    /\ [](pc \in {"loop", "tools", "returned"} => ExecutedInOrder(execution_log))
    /\ [](pc = "loop" => Len(execution_log) = Len(Requested))
    /\ [](pc = "tools" =>
            /\ index \in 1..Len(tool_calls)
            /\ Len(execution_log) = Len(Requested) - Len(tool_calls) + index - 1)
    /\ [][pc = "tools" =>
            /\ modelCalls' = modelCalls
            /\ registryCalls' = registryCalls + 1
            /\ Len(execution_log') = Len(execution_log) + 1
            /\ SubSeq(execution_log', 1, Len(execution_log)) = execution_log
            /\ Last(execution_log').tool = tool_calls[index].name
            /\ pc' = "tools" => (index' = index + 1 /\ tool_calls' = tool_calls)
            /\ pc' = "loop" => index = Len(tool_calls)]_vars
    /\ [][modelCalls' = modelCalls + 1 =>
            /\ pc = "loop"
            /\ registryCalls' = registryCalls
            /\ execution_log' = execution_log]_vars

C14_Witness ==
    /\ pc = "loop"
    /\ iteration = 2
    /\ Len(execution_log) = 3
    /\ execution_log[1].tool # execution_log[2].tool
    /\ Requested[1].id = <<1, 1>>
    /\ Requested[2].id = <<1, 2>>
    /\ Requested[3].id = <<2, 1>>

\* The tool-result messages of the conversation, in order.
ToolMessages == SelectSeq(messages, LAMBDA m : m.role = "tool")

\* C15: in every terminal state the conversation holds exactly one
\* tool-result message per entry of the execution log, and the i-th of them
\* carries the id of the i-th executed call, its tool name and the
\* serialization of the i-th entry's result.
C15_OneMessagePerEntry ==
    Returned =>
        /\ Len(ToolMessages) = Len(result.execution_log)
        /\ \A i \in 1..Len(ToolMessages) :
              /\ ToolMessages[i].tool_call_id = Requested[i].id
              /\ ToolMessages[i].name = result.execution_log[i].tool
              /\ ToolMessages[i].content
                    = JsonText(json_dumps(result.execution_log[i].result).text)

\* C16: no state crosses invocations.  Every call of process_query, on a
\* fresh agent or after any earlier calls, starts from the system and the
\* user message and an empty log and leaves the agent's fields alone; the
\* log of a call lists that call's requests only, and the returned result is
\* built from that call's log, responses and model calls.
C16_NoStateAcrossCalls ==
    /\ [][(pc \in {"idle", "returned", "raised"} /\ pc' # pc) =>
            /\ execution_log' = <<>>
            /\ iteration' = 0
            /\ pc' = "loop" => \E q \in Queries : messages' = InitialMessages(q)
            /\ pc' = "raised" => SchemaRaises(tool_registry)]_vars
    /\ [][/\ conversation_history' = conversation_history
          /\ tool_registry' = tool_registry]_vars
    /\ [](conversation_history = <<>>)
    /\ [](pc \in {"loop", "tools", "returned"} =>
            /\ SubSeq(messages, 1, 2) \in {InitialMessages(q) : q \in Queries}
            /\ ExecutedInOrder(execution_log))
    /\ [](Returned =>
            /\ result.execution_log = execution_log
            /\ result.iterations = modelCalls
            /\ outcome = "Done" =>
                  result = DoneResult(Last(messages).content, execution_log,
                                      Cardinality(Responses))
            /\ outcome = "Exhausted" => result = ExhaustedResult(execution_log))

C16_Witness ==
    /\ reused
    /\ Returned
    /\ outcome = "Done"
    /\ Len(result.execution_log) = 1
    /\ Len(messages) = 5

\* C17: a loop instance whose steps interleave with those of other
\* instances on the same registry returns what it returns alone.  No step,
\* its own or another instance's, changes the registry; the schema it sends
\* and every tool result it logs are those of the registry as constructed;
\* and its result is built from its own log and responses.
C17_SharedRegistrySafe ==
    /\ [][tool_registry' = tool_registry]_vars
    /\ [](pc \in {"loop", "tools", "returned"} =>
            /\ tool_registry = RealRegistry
            /\ tools = get_groq_tools(RealRegistry)
            /\ ExecutedInOrder(execution_log)
            /\ \A i \in 1..Len(execution_log) :
                  \E beh \in HandlerBehaviours :
                     execution_log[i].result
                        = execute_tool(RealRegistry, execution_log[i].tool,
                                       execution_log[i].arguments, beh).result)
    /\ [](Returned =>
            /\ result.execution_log = execution_log
            /\ result.iterations = modelCalls
            /\ outcome = "Done" =>
                  result = DoneResult(Last(messages).content, execution_log,
                                      Cardinality(Responses))
            /\ outcome = "Exhausted" => result = ExhaustedResult(execution_log))

C17_Witness ==
    /\ shared
    /\ Returned
    /\ outcome = "Done"
    /\ Len(result.execution_log) = 2
    /\ Succeeded(result.execution_log[1].result)
    /\ ~Succeeded(result.execution_log[2].result)

\* Registries to build schemas from: the sub-registries of the real one, a
\* registry whose tools declare the other structured parameters or none, and
\* the mock registry that code_test.py hands to the agent.
SchemaRegistries ==
    RegistryContents \cup
    {[present |-> TRUE,
      tools |-> <<ToolInfo("aggregate", <<"csv_name", "group_by", "columns", "on_columns">>,
                           {<<"csv_name">>}, {<<"csv_name">>}),
                  ToolInfo("list_files", <<>>, {}, {})>>],
     [present |-> TRUE,
      tools |-> <<ToolInfo("extract_csv_data", <<"csv_name", "columns">>,
                           {<<"csv_name">>, <<"columns">>},
                           {<<"csv_name">>, <<"columns">>})>>]}

\* The schema holds one function definition per tool of the registry, in
\* order, whose properties are the declared parameters, each of type
\* string, and whose required list is the declared parameters.
SchemaMatches(reg, schema) ==
    /\ Len(schema) = Len(reg.tools)
    /\ \A i \in 1..Len(schema) :
          /\ schema[i].type = "function"
          /\ schema[i].name = reg.tools[i].name
          /\ Len(schema[i].properties) = Len(reg.tools[i].parameters)
          /\ \A k \in 1..Len(schema[i].properties) :
                /\ schema[i].properties[k].name = reg.tools[i].parameters[k]
                /\ schema[i].properties[k].type = "string"
          /\ schema[i].required = reg.tools[i].parameters
    /\ \A i, j \in 1..Len(schema) : schema[i].name = schema[j].name => i = j

\* get_groq_tools on every such registry.
SchemaEverywhere ==
    \A reg \in SchemaRegistries : SchemaMatches(reg, get_groq_tools(reg))

\* C18: get_groq_tools emits exactly one function definition per registered
\* tool, every declared parameter being a property of type string and the
\* required list being exactly the declared parameters: for every registry
\* above, and for the schema every call of process_query has built.
C18_SchemaPerTool ==
    /\ SchemaEverywhere
    /\ pc \in {"loop", "tools", "returned"} => SchemaMatches(tool_registry, tools)

C18_Witness ==
    /\ pc = "loop"
    /\ Len(tools) = 3
    /\ tools[2].name = "extract_csv_data"
    /\ tools[2].required = <<"csv_name", "filters">>
    /\ tools[2].properties[2].suffix = " Provide as JSON string."
    /\ tools[3].required = <<"data", "chart_type", "x_column", "y_column">>

\* The assistant messages that directly precede position i, tool messages
\* apart: the response whose tool result stands at i.
RequestersOf(msgs, i) ==
    {j \in 1..(i - 1) :
        /\ msgs[j].role = "assistant"
        /\ \A k \in (j + 1)..(i - 1) : msgs[k].role = "tool"}

\* The conversation starts with the system and the user message; after them
\* come responses and tool results only; every tool result stands behind
\* the response that requested it, at the place of its call; and a response
\* is followed by another only after all its tool results.
WellStructured(msgs) ==
    /\ Len(msgs) >= 2
    /\ msgs[1] = SystemMessage
    /\ msgs[2] \in {UserMessage(q) : q \in Queries}
    /\ \A i \in 3..Len(msgs) :
          /\ msgs[i].role \in {"assistant", "tool"}
          /\ msgs[i].role = "tool" =>
                /\ RequestersOf(msgs, i) # {}
                /\ \A j \in RequestersOf(msgs, i) :
                      /\ i - j <= Len(msgs[j].tool_calls)
                      /\ msgs[i].tool_call_id = msgs[j].tool_calls[i - j].id
                      /\ msgs[i].name = msgs[j].tool_calls[i - j].name
          /\ msgs[i].role = "assistant" =>
                \A j \in RequestersOf(msgs, i) :
                   i - j - 1 = Len(msgs[j].tool_calls)

\* C19: the conversation is append-only and well-structured in every
\* state: it starts with the system and the user message, each response
\* received is appended, with or without tool calls, before its tool
\* results, each tool result follows its response in request order, no
\* message is removed, moved or changed, and every model call is sent the
\* conversation built so far.
C19_ConversationAppendOnly ==
    /\ [](pc \in {"loop", "tools", "returned"} => WellStructured(messages))
    /\ [][(pc = "loop" \/ pc = "tools") =>
            /\ Len(messages') \in {Len(messages), Len(messages) + 1}
            /\ SubSeq(messages', 1, Len(messages)) = messages]_vars
    /\ [][modelCalls' = modelCalls + 1 =>
            /\ sent' = messages
            /\ failedIn' = "none" =>
                  /\ Len(messages') = Len(messages) + 1
                  /\ Last(messages').role = "assistant"
                  /\ Last(messages').tool_calls # <<>> <=> pc' = "tools"
            /\ failedIn' # "none" => messages' = messages]_vars
    /\ [][(pc = "tools" /\ pc' # "returned") =>
            /\ Len(messages') = Len(messages) + 1
            /\ Last(messages').role = "tool"
            /\ Last(messages').tool_call_id = tool_calls[index].id]_vars

C19_Witness ==
    /\ pc = "loop"
    /\ Len(messages) = 7
    /\ messages[3].role = "assistant"
    /\ Len(messages[3].tool_calls) = 2
    /\ messages[4].role = "tool"
    /\ messages[5].role = "tool"
    /\ messages[6].role = "assistant"
    /\ messages[7].role = "tool"
    /\ sent = SubSeq(messages, 1, 5)

\* C20: in every state of the loop the iteration counter is the number of
\* model calls issued in this invocation, a call that raised included, and
\* is at most 15; the iterations of every returned result is that number.
C20_IterationCountsModelCalls ==
    /\ pc \in {"loop", "tools", "returned"} =>
          /\ iteration = modelCalls
          /\ iteration \in 0..max_iterations
          /\ iteration = Cardinality(Responses)
                            + (IF failedIn = "model_call" THEN 1 ELSE 0)
    /\ Returned => result.iterations = modelCalls

C20_Witness ==
    /\ Returned
    /\ outcome = "Failed"
    /\ failedIn = "model_call"
    /\ modelCalls = 3
    /\ Cardinality(Responses) = 2
    /\ result.iterations = 3

\* One registry execution, log entry and tool message per requested call:
\* the i-th entry records the name and the decoded arguments of the i-th
\* request and a result the registry returns for them, and the i-th tool
\* message carries the serialization of that result.
ExecutedAsRequested ==
    LET requested == Requested
        toolMessages == ToolMessages IN
    /\ registryCalls = Len(requested)
    /\ Len(execution_log) = Len(requested)
    /\ Len(toolMessages) = Len(requested)
    /\ \A i \in 1..Len(execution_log) :
          /\ execution_log[i].tool = requested[i].name
          /\ execution_log[i].arguments = ParseArguments(requested[i].arguments)
          /\ \E beh \in HandlerBehaviours :
                execution_log[i].result
                   = Executed[tool_registry, requested[i].name,
                              requested[i].arguments, beh].ex.result
    /\ \A i \in 1..Len(toolMessages) :
          i <= Len(execution_log) =>
             toolMessages[i].content
                = JsonText(json_dumps(execution_log[i].result).text)

\* C21: the registry is invoked exactly once per requested tool call, with
\* the name the model gave and the decoded arguments; the log entry records
\* that name, those arguments and the registry's result, and the content of
\* the tool-result message is the serialization of that result.  Stated of
\* the states between turns and of every returned result.
C21_OncePerRequestedCall ==
    (pc = "loop" \/ Returned) =>
        /\ ExecutedAsRequested
        /\ Returned => result.execution_log = execution_log

\* The latest message is a response without tool calls.
EndedByAnswer ==
    /\ Last(messages).role = "assistant"
    /\ Last(messages).tool_calls = <<>>

\* C22: the success of the returned result is true exactly when the loop
\* ended on a response without tool calls (Done), and false in the Failed
\* and the Exhausted outcome, whatever the tool executions gave.
C22_SuccessIffDone ==
    Returned =>
        /\ outcome \in {"Done", "Failed", "Exhausted"}
        /\ result.success \in BOOLEAN
        /\ result.success <=> outcome = "Done"
        /\ outcome = "Done" <=> EndedByAnswer
        /\ outcome = "Failed" <=> failedIn # "none"
        /\ outcome = "Exhausted" <=> (failedIn = "none" /\ ~EndedByAnswer)

C22_Witness ==
    /\ Returned
    /\ outcome = "Exhausted"
    /\ result.success = FALSE
    /\ Len(result.execution_log) >= max_iterations
    /\ \A i \in 1..Len(result.execution_log) : Succeeded(result.execution_log[i].result)

\* C23: the Exhausted result is returned only after 15 model calls that all
\* returned, each with at least one tool call; a response without tool
\* calls in the 15th turn gives Done with success true and iterations 15.
C23_ExhaustedOnlyAfterToolTurns ==
    /\ (Returned /\ outcome = "Exhausted") =>
          /\ modelCalls = max_iterations
          /\ failedIn = "none"
          /\ Cardinality(Responses) = max_iterations
          /\ Cardinality(ToolTurns) = max_iterations
    /\ (Returned /\ Cardinality(Responses) = max_iterations /\ EndedByAnswer) =>
          /\ outcome = "Done"
          /\ result.success = TRUE
          /\ result.iterations = max_iterations
          /\ Cardinality(ToolTurns) = max_iterations - 1

C23_Witness ==
    /\ Returned
    /\ outcome = "Done"
    /\ Cardinality(ToolTurns) = max_iterations - 1
    /\ modelCalls = max_iterations
    /\ result.iterations = max_iterations
    /\ result.success = TRUE

\* C24: in the Exhausted result the log holds one entry for every tool call
\* requested in the 15 turns, those of the 15th included, each executed by
\* the registry; the results of the 15th turn stand in the conversation
\* behind the last response, and the last model call was sent the
\* conversation up to that response, without them.
C24_LastTurnExecuted ==
    (Returned /\ outcome = "Exhausted") =>
        LET requested == Requested
            last == Len(sent) + 1 IN
        /\ Cardinality(ToolTurns) = max_iterations
        /\ Len(result.execution_log) = Len(requested)
        /\ registryCalls = Len(requested)
        /\ \A i \in 1..Len(requested) :
              /\ result.execution_log[i].tool = requested[i].name
              /\ result.execution_log[i].arguments = ParseArguments(requested[i].arguments)
        /\ last < Len(messages)
        /\ sent = SubSeq(messages, 1, last - 1)
        /\ messages[last].role = "assistant"
        /\ \A i \in 1..Len(messages) : messages[i].role = "assistant" => i <= last
        /\ Len(messages) - last = Len(messages[last].tool_calls)
        /\ \A k \in 1..Len(messages[last].tool_calls) :
              /\ messages[last + k].role = "tool"
              /\ messages[last + k].tool_call_id = messages[last].tool_calls[k].id
              /\ messages[last].tool_calls[k].id = <<max_iterations, k>>
              /\ result.execution_log[Len(requested) - Len(messages[last].tool_calls) + k].tool
                    = messages[last].tool_calls[k].name

C24_Witness ==
    /\ Returned
    /\ outcome = "Exhausted"
    /\ Len(result.execution_log) = max_iterations + 1
    /\ Len(sent) = Len(messages) - 2
    /\ Last(messages).role = "tool"
    /\ Last(messages).tool_call_id = <<max_iterations, 1>>

\* C25: the arguments of every log entry are a mapping, whatever argument
\* text the model supplied: text that is not JSON gives the empty map, and
\* no list, string, number or null is recorded or passed to the registry.
C25_ArgumentsAreMappings ==
    /\ \A i \in 1..Len(execution_log) : execution_log[i].arguments.kind = "dict"
    /\ pc = "tools" => ParseArguments(tool_calls[index].arguments).kind = "dict"

====
